---- MODULE Spec2Model ----
(***************************************************************************)
(* Model of the idea-analysis server of codeberry-playground.              *)
(*                                                                         *)
(* Three generations of the POST handler are modelled, one per deployment: *)
(*   "heuristic"  src/api/generate-idea/route.ts       (POST, PUT)         *)
(*   "weighted"   src/app/api/generate-idea/route.ts   (POST, l.159-322)   *)
(*   "legacy"     src/unnamed/part_003                 (handler)           *)
(* A server runs one of them; requests are served one at a time, and a     *)
(* handler advances one awaited step per action (JavaScript runs the code  *)
(* between two awaits atomically).                                         *)
(*                                                                         *)
(* Numbers are exact rationals n/d together with the IEEE-754 specials     *)
(* NaN and +-Infinity; a JavaScript value is a record [k, n, d].           *)
(***************************************************************************)
EXTENDS Integers, Sequences, FiniteSets, TLC

\* ------------------------------------------------------------------ bounds
MaxItems    == 2   \* longest due-diligence list in an LLM response
MaxDetails  == 2   \* most detail lines in a technology / go-to-market section
MaxLog      == 2   \* most records in the audit log file
MaxMissing  == 1   \* most sub-fields absent from a returned investmentMemo
MaxLines    == 6   \* longest list handed to a score calculator
MaxChunks   == 2   \* most whitespace-separated chunks in a scored text
MaxJoined   == 2   \* most words joined by punctuation in one chunk
MaxSubmissions == 2 \* most submissions of the form on one page
MaxCallers  == 2   \* most requests logging at the same time
MaxExcess   == 2   \* most characters by which a text exceeds a cap
MaxSlides   == 2   \* most slides in a presentation
MaxMatches  == 2   \* most matches of a field pattern in a text
MaxExecCalls == 4  \* exec calls followed before the loop is given up
MaxEdits    == 3   \* most changes of the search box on one page
MaxQueryLength == 2 \* longest text typed into the search box

\* ------------------------------------------------------- JavaScript values
RECURSIVE GCD(_, _)
GCD(a, b) == IF b = 0 THEN a ELSE GCD(b, a % b)

Abs(x) == IF x < 0 THEN -x ELSE x

\* the rational n/d in lowest terms, d > 0
Num(n, d) ==
    LET s == IF d < 0 THEN -1 ELSE 1
        g == GCD(Abs(n), Abs(d))
    IN  [k |-> "num", n |-> (s * n) \div g, d |-> (s * d) \div g]

NaN       == [k |-> "nan", n |-> 0, d |-> 1]
Infinity(s) == [k |-> "inf", n |-> s, d |-> 1]
Undefined == [k |-> "undefined", n |-> 0, d |-> 1]
Str       == [k |-> "string", n |-> 0, d |-> 1]

Zero == Num(0, 1)

IsNum(v)    == v.k = "num"
IsFinite(v) == v.k = "num"
Sign(v)     == IF v.n > 0 THEN 1 ELSE IF v.n < 0 THEN -1 ELSE 0

\* a <= b for two finite numbers
Leq(a, b) == a.n * b.d <= b.n * a.d
Lt(a, b)  == a.n * b.d < b.n * a.d

\* JavaScript's binary + restricted to a number accumulator: adding
\* undefined gives NaN, NaN is absorbing, opposite infinities give NaN.
\* (number + string is a string that the later division turns into NaN for
\* every non-numeric text, hence NaN here.)
JSAdd(a, b) ==
    IF a.k \in {"nan", "undefined", "string"} \/ b.k \in {"nan", "undefined", "string"}
    THEN NaN
    ELSE IF a.k = "inf" /\ b.k = "inf"
         THEN IF a.n = b.n THEN a ELSE NaN
    ELSE IF a.k = "inf" THEN a
    ELSE IF b.k = "inf" THEN b
    ELSE Num(a.n * b.d + b.n * a.d, a.d * b.d)

JSMul(a, b) ==
    IF a.k \in {"nan", "undefined", "string"} \/ b.k \in {"nan", "undefined", "string"}
    THEN NaN
    ELSE IF a.k = "inf" \/ b.k = "inf"
         THEN IF Sign(a) * Sign(b) = 0 THEN NaN ELSE Infinity(Sign(a) * Sign(b))
    ELSE Num(a.n * b.n, a.d * b.d)

\* IEEE division: x/0 is +-Infinity for x # 0, 0/0 is NaN
JSDiv(a, b) ==
    IF a.k \in {"nan", "undefined", "string"} \/ b.k \in {"nan", "undefined", "string"}
    THEN NaN
    ELSE IF a.k = "inf"
         THEN IF b.k = "inf" THEN NaN
              ELSE Infinity(a.n * (IF Sign(b) < 0 THEN -1 ELSE 1))
    ELSE IF b.k = "inf" THEN Zero
    ELSE IF b.n = 0
         THEN IF a.n = 0 THEN NaN ELSE Infinity(Sign(a))
    ELSE Num(a.n * b.d, a.d * b.n)

\* Math.min / Math.max: NaN if either argument is NaN
MathMin(a, b) ==
    IF a.k # "num" \/ b.k # "num"
    THEN IF a.k \in {"nan", "undefined", "string"} \/ b.k \in {"nan", "undefined", "string"}
         THEN NaN
         ELSE IF a.k = "inf" THEN (IF a.n < 0 THEN a ELSE b)
              ELSE (IF b.n < 0 THEN b ELSE a)
    ELSE IF Leq(a, b) THEN a ELSE b

MathMax(a, b) ==
    IF a.k # "num" \/ b.k # "num"
    THEN IF a.k \in {"nan", "undefined", "string"} \/ b.k \in {"nan", "undefined", "string"}
         THEN NaN
         ELSE IF a.k = "inf" THEN (IF a.n > 0 THEN a ELSE b)
              ELSE (IF b.n > 0 THEN b ELSE a)
    ELSE IF Leq(a, b) THEN b ELSE a

\* Number(x.toFixed(2)): nearest multiple of 1/100, the larger on a tie
ToFixed2(v) ==
    IF v.k # "num" THEN (IF v.k = "inf" THEN v ELSE NaN)
    ELSE LET scaled == 200 * v.n + v.d      \* floor((2*100*n + d) / (2*d))
             q      == scaled \div (2 * v.d)
         IN  Num(q, 100)

\* Array.prototype.reduce((sum, x) => sum + x, 0)
RECURSIVE SumSeq(_)
SumSeq(s) == IF s = <<>> THEN Zero ELSE JSAdd(SumSeq(SubSeq(s, 1, Len(s) - 1)), s[Len(s)])


\* ------------------------------------------------------------ input domains
Pipelines == {"heuristic", "weighted", "legacy"}

\* an uploaded file's name split at its dots; <<>> stands for no pitchDeck part
NoFile    == <<>>
FileNames == {<<"deck", "PDF">>, <<"slides", "pptx">>, <<"notes", "txt">>}

QueryKinds  == {"absent", "short"}
MarketKinds == {"absent", "present"}

MemoFields == {"summary", "marketOpportunity", "businessModel",
               "competitiveAdvantage", "financialProjections", "fundingRequirements"}

\* String.prototype.toLowerCase on the extensions that occur
ToLowerCase(s) ==
    CASE s = "PDF"  -> "pdf"
      [] s = "PPTX" -> "pptx"
      [] s = "TXT"  -> "txt"
      [] OTHER      -> s

\* name.split('.').pop()?.toLowerCase()
FileExtension(name) == ToLowerCase(name[Len(name)])

\* ------------------------------------------------------------------- texts
\* A text blob is known by its length, by whether one of the field patterns
\* (funding, market size, ...) matches in it, and by the number of lines of
\* its "technology" and "go-to-market" sections (0: no such section).
MinPdfTextLength == 100
OcrPlaceholderLength == 37

Text(len, match, tech, gtm) == [len |-> len, match |-> match, tech |-> tech, gtm |-> gtm]
EmptyText      == Text(0, FALSE, 0, 0)
OcrPlaceholder == Text(OcrPlaceholderLength, FALSE, 0, 0)

\* texts a document can yield: none, a few characters, or a deck's worth
DeckTexts ==
    {EmptyText, Text(MinPdfTextLength - 1, FALSE, 0, 0)}
    \cup {Text(MinPdfTextLength, FALSE, t, g) : t \in 0..MaxDetails, g \in 0..MaxDetails}
    \cup {Text(MinPdfTextLength, TRUE, 0, 0)}

\* --------------------------------------------------------- LLM completions
\* dueDiligence list of the heuristic schema: plain strings (no score member)
StringLists == {[i \in 1..n |-> Str] : n \in 0..MaxItems}

Absent(T)  == [present |-> FALSE, v |-> T]
Present(x) == [present |-> TRUE, v |-> x]

MemoShapes == {S \in SUBSET MemoFields : Cardinality(MemoFields \ S) <= MaxMissing}

ReportedScores == {Num(1, 2), Num(5, 1)}

\* what JSON.parse yields for an object completion of the heuristic schema
HeuristicObjects ==
    [investmentMemo   : {Absent({})} \cup {Present(S) : S \in MemoShapes},
     dueDiligenceTech : {Absent(<<>>)} \cup {Present(l) : l \in StringLists},
     dueDiligenceGTM  : {Absent(<<>>)} \cup {Present(l) : l \in StringLists},
     globalScore      : ReportedScores]

\* message.content of a completion: null, not JSON, the JSON text "null",
\* or a JSON object (carried in obj)
Content(kind, obj) == [kind |-> kind, obj |-> obj]
NoObject == [investmentMemo |-> Absent({}), dueDiligenceTech |-> Absent(<<>>),
             dueDiligenceGTM |-> Absent(<<>>), globalScore |-> Undefined]
BadContents == {Content(k, NoObject) : k \in {"null", "text", "jsonNull"}}

\* -------------------------------------------------------------------- state
VARIABLES
    pipeline,            \* which generation of the handler is deployed
    apiKey,              \* process.env.OPENAI_API_KEY is set
    logFile,             \* logs/feedback_and_analysis.json, a sequence of records
    pc,                  \* position of the request being served
    req,                 \* the multipart form of the request being served
    events,              \* what the request has done so far, in order
    pitchDeckText,
    pitchDeckProcessed,
    pitchDeckInfo,
    prompt,
    parsedResponse,
    startupStage,
    customWeights,
    pitchDeckContent,    \* the pitch-deck summary of the weighted pipeline
    sent,                \* responses written for the request, in order
    escaped,             \* an exception left the handler uncaught
    applied,             \* a helper function applied to an input, with its result
    page,                \* the state of the client page (src/app/page.tsx)
    logCalls             \* logFeedbackAndAnalysis calls in flight, by caller

vars == <<pipeline, apiKey, logFile, pc, req, events, pitchDeckText,
          pitchDeckProcessed, pitchDeckInfo, prompt, parsedResponse,
          startupStage, customWeights, pitchDeckContent, sent, escaped,
          applied, page, logCalls>>

\* what a handler never touches: the deployment, and the state of the other
\* specifications of this module (helper applications, client page, log callers)
env    == <<pipeline, apiKey, applied, page, logCalls>>
locals == <<pitchDeckText, pitchDeckProcessed, pitchDeckInfo, prompt, parsedResponse,
            startupStage, customWeights, pitchDeckContent>>

NoWeights == [kind |-> "absent", obj |-> << >>]

NoRequest == [method |-> "none", query |-> "absent", targetMarket |-> "absent",
              file |-> NoFile, rating |-> 0, startupStage |-> "absent",
              customWeights |-> NoWeights]

\* route.ts l.108-124: the PitchDeckInfo used when no deck text is available
DefaultPitchDeckInfo ==
    [fundingRequirements |-> "empty", techDetails |-> 0, gtmDetails |-> 0,
     techScore |-> Zero, gtmScore |-> Zero, confidenceScore |-> Zero]

NoPrompt   == [built |-> FALSE, query |-> "absent", funding |-> "empty", adjusted |-> FALSE]
NoResponse == [parsed |-> FALSE]

Response(status, error) == [status |-> status, error |-> error]

\* nothing applied, no page mounted, no log call in flight
NoApplication == [fn |-> "none"]
NoPage        == [pc |-> "unmounted"]
NoLogCalls    == << >>

\* a server between requests, with an empty audit log
ServerIdle ==
    /\ logFile = <<>>
    /\ pc = "idle"
    /\ req = NoRequest
    /\ events = <<>>
    /\ pitchDeckText = EmptyText
    /\ pitchDeckProcessed = FALSE
    /\ pitchDeckInfo = DefaultPitchDeckInfo
    /\ prompt = NoPrompt
    /\ parsedResponse = NoResponse
    /\ startupStage = "absent"
    /\ customWeights = << >>
    /\ pitchDeckContent = "empty"
    /\ sent = <<>>
    /\ escaped = FALSE

Init ==
    /\ pipeline \in Pipelines
    /\ apiKey \in BOOLEAN
    /\ ServerIdle
    /\ applied = NoApplication
    /\ page = NoPage
    /\ logCalls = NoLogCalls


\* --------------------------------------------------- request arrival / end
\* the forms a client can submit to the heuristic route
HeuristicRequests ==
    [method : {"POST"}, query : QueryKinds, targetMarket : MarketKinds,
     file : {NoFile} \cup FileNames, rating : {0}, startupStage : {"absent"},
     customWeights : {NoWeights}]

\* ratings a PUT can carry
Ratings == {0, 5}

FeedbackRequests ==
    [method : {"PUT"}, query : {"absent"}, targetMarket : {"absent"},
     file : {NoFile}, rating : Ratings, startupStage : {"absent"},
     customWeights : {NoWeights}]

ResetLocals ==
    /\ events' = <<>>
    /\ pitchDeckText' = EmptyText
    /\ pitchDeckProcessed' = FALSE
    /\ pitchDeckInfo' = DefaultPitchDeckInfo
    /\ prompt' = NoPrompt
    /\ parsedResponse' = NoResponse
    /\ startupStage' = "absent"
    /\ customWeights' = << >>
    /\ pitchDeckContent' = "empty"
    /\ sent' = <<>>
    /\ escaped' = FALSE

\* a request reaches the heuristic route
H_Receive ==
    /\ pipeline = "heuristic"
    /\ pc = "idle"
    /\ Len(logFile) < MaxLog
    /\ \E r \in HeuristicRequests \cup FeedbackRequests :
          /\ req' = r
          /\ pc' = IF r.method = "PUT" THEN "put" ELSE "formData"
    /\ ResetLocals
    /\ UNCHANGED <<env, logFile>>

\* the response is on the wire; the server is ready for the next request
Finish ==
    /\ pc = "done"
    /\ pc' = "idle"
    /\ req' = NoRequest
    /\ ResetLocals
    /\ UNCHANGED <<env, logFile>>

\* ------------------------------------------------------- heuristic pipeline
\* route.ts l.194-201: the catch block of POST
H_errorMessage(err) ==
    IF err = "SyntaxError" THEN "Invalid response from AI model"
    ELSE "Internal server error"

\* a catch block that lets the failure of the log write through
H_catchRethrowing(err) ==
    IF err = "Error" /\ pc = "logFeedbackAndAnalysis"
    THEN /\ sent' = sent
         /\ escaped' = TRUE
         /\ pc' = "done"
    ELSE /\ sent' = Append(sent, Response(500, H_errorMessage(err)))
         /\ escaped' = escaped
         /\ pc' = "done"

H_catch(err) ==
    /\ sent' = Append(sent, Response(500, H_errorMessage(err)))
    /\ escaped' = escaped
    /\ pc' = "done"

\* the bonus without its Math.min cap
calculateScoreUncapped(n) ==
    LET baseScore == IF n > 0 THEN Num(1, 2) ELSE Zero
        bonus     == Num(n, 10)
    IN  ToFixed2(JSAdd(baseScore, bonus))

\* route.ts l.370-374
calculateScore(n) ==
    LET baseScore == IF n > 0 THEN Num(1, 2) ELSE Zero
        bonus     == MathMin(Num(n, 10), Num(1, 2))
    IN  ToFixed2(JSAdd(baseScore, bonus))

\* route.ts l.177: the calculator used when no deck was processed
fallbackCalculateScore(n) == ToFixed2(MathMin(Num(n * 2, 10), Num(1, 1)))

\* the mean written without its parentheses: techScore + gtmScore / 2
meanScoreUnparenthesised(t, g) == ToFixed2(JSAdd(t, JSDiv(g, Num(2, 1))))

\* route.ts l.180 and l.378
meanScore(t, g) == ToFixed2(JSDiv(JSAdd(t, g), Num(2, 1)))

\* ----------------------------------------------------- sentiment scoring
\* A scored text is a sequence of chunks separated by whitespace, possibly
\* with whitespace before the first and after the last chunk; a chunk is a
\* sequence of words joined by punctuation ("growth-risk"), and a word is in
\* the positive vocabulary, in the negative vocabulary, or in neither.
WordClasses == {"positive", "negative", "other"}

Chunks == UNION {[1..n -> WordClasses] : n \in 1..MaxJoined}

ScoredTexts ==
    {[leading |-> l, chunks |-> c, trailing |-> t] :
        l \in BOOLEAN, t \in BOOLEAN,
        c \in UNION {[1..n -> Chunks] : n \in 1..MaxChunks}}
    \cup {[leading |-> l, chunks |-> << >>, trailing |-> l] : l \in BOOLEAN}

\* route.ts l.426: text.split(/\s+/).length; "" splits into [""], and
\* whitespace at either end adds an empty piece
splitLength(text) ==
    IF text.chunks = << >> THEN (IF text.leading THEN 2 ELSE 1)
    ELSE Len(text.chunks) + (IF text.leading THEN 1 ELSE 0)
                          + (IF text.trailing THEN 1 ELSE 0)

\* route.ts l.427-428: the matches of \bword\b over the vocabulary
RECURSIVE matchCount(_, _)
matchCount(chunks, class) ==
    IF chunks = << >> THEN 0
    ELSE Cardinality({i \in DOMAIN Head(chunks) : Head(chunks)[i] = class})
         + matchCount(Tail(chunks), class)

\* the comparisons written with >= : a tie with the negative score is positive
overallSentimentTiesPositive(positiveScore, negativeScore, neutralScore) ==
    IF Leq(negativeScore, positiveScore) /\ Lt(neutralScore, positiveScore) THEN "positive"
    ELSE IF Lt(positiveScore, negativeScore) /\ Lt(neutralScore, negativeScore) THEN "negative"
    ELSE "neutral"

\* route.ts l.435-442
overallSentiment(positiveScore, negativeScore, neutralScore) ==
    IF Lt(negativeScore, positiveScore) /\ Lt(neutralScore, positiveScore) THEN "positive"
    ELSE IF Lt(positiveScore, negativeScore) /\ Lt(neutralScore, negativeScore) THEN "negative"
    ELSE "neutral"

\* route.ts l.421-452
performSentimentAnalysis(text) ==
    LET wordCount     == splitLength(text)
        positiveCount == matchCount(text.chunks, "positive")
        negativeCount == matchCount(text.chunks, "negative")
        neutralCount  == wordCount - positiveCount - negativeCount
        positiveScore == JSDiv(Num(positiveCount, 1), Num(wordCount, 1))
        negativeScore == JSDiv(Num(negativeCount, 1), Num(wordCount, 1))
        neutralScore  == JSDiv(Num(neutralCount, 1), Num(wordCount, 1))
    IN  [overallSentiment |-> overallSentiment(positiveScore, negativeScore, neutralScore),
         sentimentScores  |-> [positive |-> positiveScore,
                               negative |-> negativeScore,
                               neutral  |-> neutralScore]]

\* a missing section left as an empty list instead of the placeholder list
processPitchDeckNoPlaceholder(text) ==
    LET techScore == calculateScore(text.tech)
        gtmScore  == calculateScore(text.gtm)
    IN  [fundingRequirements |-> "placeholder",
         techDetails |-> text.tech, gtmDetails |-> text.gtm,
         techScore |-> techScore, gtmScore |-> gtmScore,
         confidenceScore |-> meanScore(techScore, gtmScore)]

\* route.ts l.317-398: the PitchDeckInfo parsed out of a text
processPitchDeck(text) ==
    LET techDetails == IF text.tech > 0 THEN text.tech ELSE 1
        gtmDetails  == IF text.gtm > 0 THEN text.gtm ELSE 1
        techScore   == calculateScore(techDetails)
        gtmScore    == calculateScore(gtmDetails)
    IN  [fundingRequirements |-> "placeholder",
         techDetails |-> techDetails, gtmDetails |-> gtmDetails,
         techScore |-> techScore, gtmScore |-> gtmScore,
         confidenceScore |-> meanScore(techScore, gtmScore)]

\* route.ts l.399-418: the PitchDeckInfo of the catch branch
ErrorPitchDeckInfo ==
    [fundingRequirements |-> "empty", techDetails |-> 1, gtmDetails |-> 1,
     techScore |-> Zero, gtmScore |-> Zero, confidenceScore |-> Zero]

\* route.ts l.234-315
generatePrompt(query, info) ==
    [built |-> TRUE, query |-> query, funding |-> info.fundingRequirements,
     adjusted |-> FALSE]

\* route.ts l.212-224: the last count records, or none when the file cannot
\* be read or parsed
getRecentFeedback(count, readable) ==
    LET n == Len(logFile)
    IN  IF readable THEN SubSeq(logFile, IF n > count THEN n - count + 1 ELSE 1, n)
        ELSE << >>

RECURSIVE SumRatings(_)
SumRatings(fb) == IF fb = <<>> THEN 0 ELSE fb[1].rating + SumRatings(Tail(fb))

\* the comparison turned round: averageRating > 3.5
adjustPromptAboveThreshold(basePrompt, recentFeedback) ==
    LET high == Len(recentFeedback) > 0
                /\ 2 * SumRatings(recentFeedback) > 7 * Len(recentFeedback)
    IN  [basePrompt EXCEPT !.adjusted = high]

\* route.ts l.63-75: averageRating < 3.5, where 0/0 is NaN and NaN < 3.5 is false
adjustPromptBasedOnFeedback(basePrompt, recentFeedback) ==
    LET low == Len(recentFeedback) > 0
               /\ 2 * SumRatings(recentFeedback) < 7 * Len(recentFeedback)
    IN  [basePrompt EXCEPT !.adjusted = low]

\* route.ts l.91-133 after the text is known: l.126-133
H_afterExtraction(text, processed) ==
    /\ pitchDeckText' = text
    /\ pitchDeckProcessed' = processed
    /\ IF text.len > 0
       THEN /\ pc' = "processPitchDeck"
            /\ UNCHANGED <<pitchDeckInfo, prompt>>
       ELSE /\ pc' = "getRecentFeedback"
            /\ pitchDeckInfo' = DefaultPitchDeckInfo
            /\ prompt' = generatePrompt(req.query, DefaultPitchDeckInfo)

\* route.ts l.82-104: the form is read and checked
H_formData ==
    /\ pipeline = "heuristic"
    /\ pc = "formData"
    /\ events' = Append(events, "formData")
    /\ UNCHANGED <<env, logFile, req, parsedResponse, startupStage, customWeights,
                   pitchDeckContent>>
    /\ IF req.query = "absent" \/ req.targetMarket = "absent"
       THEN /\ H_catch("Error")
            /\ UNCHANGED <<pitchDeckText, pitchDeckProcessed, pitchDeckInfo, prompt>>
       ELSE IF req.file = NoFile
       THEN /\ H_afterExtraction(EmptyText, FALSE)
            /\ UNCHANGED <<sent, escaped>>
       ELSE IF FileExtension(req.file) \in {"pdf", "pptx"}
       THEN /\ pc' = IF FileExtension(req.file) = "pdf" THEN "extractPDF" ELSE "extractPPTX"
            /\ UNCHANGED <<pitchDeckText, pitchDeckProcessed, pitchDeckInfo, prompt,
                           sent, escaped>>
       ELSE /\ H_catch("Error")
            /\ UNCHANGED <<pitchDeckText, pitchDeckProcessed, pitchDeckInfo, prompt>>

\* route.ts l.463-488: primary extraction returns, or throws
H_extractTextFromPDF ==
    /\ pipeline = "heuristic"
    /\ pc = "extractPDF"
    /\ UNCHANGED <<env, logFile, req, parsedResponse, sent, escaped, startupStage,
                   customWeights, pitchDeckContent>>
    /\ \/ /\ events' = events \o <<"extractBuffer", "primaryUnusable">>
          /\ pc' = "performOCR"                          \* extractBuffer threw
          /\ UNCHANGED <<pitchDeckText, pitchDeckProcessed, pitchDeckInfo, prompt>>
       \/ \E text \in DeckTexts :
             IF text.len < MinPdfTextLength
             THEN /\ events' = events \o <<"extractBuffer", "primaryUnusable">>
                  /\ pc' = "performOCR"
                  /\ UNCHANGED <<pitchDeckText, pitchDeckProcessed, pitchDeckInfo, prompt>>
             ELSE /\ events' = Append(events, "extractBuffer")
                  /\ H_afterExtraction(text, TRUE)

\* route.ts l.540-550, called from extractTextFromPDF
H_performOCR ==
    /\ pipeline = "heuristic"
    /\ pc = "performOCR"
    /\ events' = Append(events, "performOCR")
    /\ UNCHANGED <<env, logFile, req, parsedResponse, sent, escaped, startupStage,
                   customWeights, pitchDeckContent>>
    /\ \/ H_afterExtraction(OcrPlaceholder, TRUE)        \* the worker threw
       \/ \E text \in DeckTexts : H_afterExtraction(text, TRUE)

\* route.ts l.490-538
H_extractTextFromPPTX ==
    /\ pipeline = "heuristic"
    /\ pc = "extractPPTX"
    /\ events' = Append(events, "pptxLoad")
    /\ UNCHANGED <<env, logFile, req, parsedResponse, startupStage, customWeights,
                   pitchDeckContent>>
    /\ \/ /\ H_catch("Error")                            \* load reported err: reject
          /\ UNCHANGED <<pitchDeckText, pitchDeckProcessed, pitchDeckInfo, prompt>>
       \/ /\ \E text \in DeckTexts : H_afterExtraction(text, TRUE)
          /\ UNCHANGED <<sent, escaped>>

\* route.ts l.126-133 with l.317-419
H_processPitchDeck ==
    /\ pipeline = "heuristic"
    /\ pc = "processPitchDeck"
    /\ events' = Append(events, "processPitchDeck")
    /\ UNCHANGED <<env, logFile, req, parsedResponse, sent, escaped,
                   pitchDeckText, pitchDeckProcessed, startupStage, customWeights,
                   pitchDeckContent>>
    /\ IF pitchDeckText.match
       THEN \* l.319-326: exec on a pattern without the g flag never returns
            \* null once it has matched; the results array grows until the
            \* engine either dies or raises a RangeError that l.399 catches
            \/ /\ pc' = "crashed"
               /\ UNCHANGED <<pitchDeckInfo, prompt>>
            \/ /\ pc' = "getRecentFeedback"
               /\ pitchDeckInfo' = ErrorPitchDeckInfo
               /\ prompt' = generatePrompt(req.query, ErrorPitchDeckInfo)
       ELSE /\ pc' = "getRecentFeedback"
            /\ pitchDeckInfo' = processPitchDeck(pitchDeckText)
            /\ prompt' = generatePrompt(req.query, processPitchDeck(pitchDeckText))

\* route.ts l.136-144: the log is read, the prompt adjusted, the completion
\* request issued
H_getRecentFeedback ==
    /\ pipeline = "heuristic"
    /\ pc = "getRecentFeedback"
    /\ events' = events \o <<"readLog", "llm:main">>
    /\ \E readable \in BOOLEAN :
         prompt' = adjustPromptBasedOnFeedback(prompt, getRecentFeedback(5, readable))
    /\ pc' = "completion"
    /\ UNCHANGED <<env, logFile, req, parsedResponse, sent, escaped,
                   pitchDeckText, pitchDeckProcessed, pitchDeckInfo, startupStage,
                   customWeights, pitchDeckContent>>


\* route.ts l.167 and l.170: the fixed placeholder lists
DefaultDueDiligence == [i \in 1..3 |-> Str]

\* route.ts l.153-171: missing sections are replaced by placeholders
H_validate(obj) ==
    [investmentMemo   |-> IF obj.investmentMemo.present
                          THEN obj.investmentMemo ELSE Present(MemoFields),
     memoSource       |-> IF obj.investmentMemo.present THEN "model" ELSE "default",
     dueDiligenceTech |-> IF obj.dueDiligenceTech.present
                          THEN obj.dueDiligenceTech ELSE Present(DefaultDueDiligence),
     dueDiligenceGTM  |-> IF obj.dueDiligenceGTM.present
                          THEN obj.dueDiligenceGTM ELSE Present(DefaultDueDiligence),
     globalScore      |-> obj.globalScore]

\* route.ts l.176-188: the scores put into the response
H_scores(v, processed, info) ==
    LET techScore == IF processed THEN info.techScore
                     ELSE fallbackCalculateScore(Len(v.dueDiligenceTech.v))
        gtmScore  == IF processed THEN info.gtmScore
                     ELSE fallbackCalculateScore(Len(v.dueDiligenceGTM.v))
    IN  [parsed             |-> TRUE,
         investmentMemo     |-> v.investmentMemo,
         memoSource         |-> v.memoSource,
         dueDiligenceTech   |-> v.dueDiligenceTech,
         dueDiligenceGTM    |-> v.dueDiligenceGTM,
         globalScore        |-> v.globalScore,
         techScore          |-> techScore,
         gtmScore           |-> gtmScore,
         confidenceScore    |-> meanScore(techScore, gtmScore),
         pitchDeckProcessed |-> processed]

\* route.ts l.141-188: the completion request returns (or fails) and the
\* handler runs on to the log write
H_completion ==
    /\ pipeline = "heuristic"
    /\ pc = "completion"
    /\ UNCHANGED <<env, logFile, req, pitchDeckText, pitchDeckProcessed,
                   pitchDeckInfo, prompt, startupStage, customWeights, pitchDeckContent>>
    /\ \/ /\ events' = Append(events, "llmFailed")       \* network / API failure
          /\ H_catch("APIError")
          /\ UNCHANGED parsedResponse
       \/ /\ apiKey
          /\ \E c \in BadContents \cup {Content("object", o) : o \in HeuristicObjects} :
                CASE c.kind = "null" ->
                       /\ events' = Append(events, "llmReturned")
                       /\ H_catch("Error")
                       /\ UNCHANGED parsedResponse
                  [] c.kind = "text" ->
                       /\ events' = events \o <<"llmReturned", "jsonParseFailed">>
                       /\ H_catch("SyntaxError")
                       /\ UNCHANGED parsedResponse
                  [] c.kind = "jsonNull" ->
                       /\ events' = events \o <<"llmReturned", "jsonParsed">>
                       /\ H_catch("TypeError")
                       /\ UNCHANGED parsedResponse
                  [] c.kind = "object" ->
                       /\ events' = events \o <<"llmReturned", "jsonParsed">>
                       /\ parsedResponse' = H_scores(H_validate(c.obj), pitchDeckProcessed,
                                                     pitchDeckInfo)
                       /\ pc' = "logFeedbackAndAnalysis"
                       /\ UNCHANGED <<sent, escaped>>

\* route.ts l.50-56: the records read from the file, none when readFile or
\* JSON.parse throws
readLogs(file, readable) == IF readable THEN file ELSE << >>

\* the record appended to the file itself instead of to the records read
writeLogsAppending(file, logs, record) == Append(file, record)

\* route.ts l.58-59: the records read, plus the new one, replace the file
writeLogs(file, logs, record) == Append(logs, record)

\* route.ts l.45-60, run without another call in between
logFeedbackAndAnalysis(feedback, source, readable) ==
    writeLogs(logFile, readLogs(logFile, readable), [rating |-> feedback, source |-> source])

\* route.ts l.191-193: the analysis is logged, then the response is sent
H_logFeedbackAndAnalysis ==
    /\ pipeline = "heuristic"
    /\ pc = "logFeedbackAndAnalysis"
    /\ UNCHANGED <<env, req, locals>>
    /\ \/ /\ events' = Append(events, "logWritten")
          /\ \E readable \in BOOLEAN :
               logFile' = logFeedbackAndAnalysis(0, "POST", readable)
          /\ sent' = Append(sent, Response(200, ""))
          /\ pc' = "done"
          /\ UNCHANGED escaped
       \/ /\ events' = Append(events, "logFailed")       \* mkdir / writeFile threw
          /\ H_catch("Error")
          /\ UNCHANGED logFile

\* route.ts l.205-209: PUT has no try/catch
PUT ==
    /\ pipeline = "heuristic"
    /\ pc = "put"
    /\ UNCHANGED <<env, req, locals>>
    /\ \/ /\ events' = Append(events, "logWritten")
          /\ \E readable \in BOOLEAN :
               logFile' = logFeedbackAndAnalysis(req.rating, "PUT", readable)
          /\ sent' = Append(sent, Response(200, ""))
          /\ UNCHANGED escaped
       \/ /\ events' = Append(events, "logFailed")
          /\ escaped' = TRUE
          /\ UNCHANGED <<logFile, sent>>
    /\ pc' = "done"

\* -------------------------------------------------------- weighted pipeline
WeightKeys == {"tech", "gtm", "investmentMemo"}

\* weights a client can send, in hundredths
WeightValues == {0, 90}

\* the customWeights form field: absent, not JSON, or a JSON object that
\* names some of the weights
CustomWeightFields ==
    {NoWeights, [kind |-> "text", obj |-> << >>]}
    \cup {[kind |-> "object", obj |-> f] :
            f \in UNION {[K -> WeightValues] : K \in SUBSET WeightKeys}}

\* the startupStage form field
StageFields == {"absent", "", "early", "growth", "late", "seed"}

WeightedRequests ==
    [method : {"POST"}, query : QueryKinds, targetMarket : {"absent"},
     file : {NoFile, <<"notes", "txt">>}, rating : {0},
     startupStage : StageFields, customWeights : CustomWeightFields]

\* scores an LLM can attach to a due-diligence item (undefined: none at all)
ItemScores == {Undefined, Num(180, 1)}

RECURSIVE SeqsUpTo(_, _)
SeqsUpTo(S, n) ==
    IF n = 0 THEN {<< >>}
    ELSE LET shorter == SeqsUpTo(S, n - 1)
         IN  shorter \cup {Append(q, x) : q \in {t \in shorter : Len(t) = n - 1}, x \in S}

ScoredLists == SeqsUpTo(ItemScores, MaxItems)

\* Object.values of the investmentMemoScores an LLM can return
MemoScoreLists ==
    {[i \in 1..6 |-> Num(90, 1)],
     [i \in 1..6 |-> IF i = 1 THEN Str ELSE Num(90, 1)]}

WeightedObjects ==
    [investmentMemo       : {Absent({}), Present(MemoFields)},
     dueDiligenceTech     : {Absent(<<>>)} \cup {Present(l) : l \in ScoredLists},
     dueDiligenceGTM      : {Absent(<<>>)} \cup {Present(l) : l \in ScoredLists},
     investmentMemoScores : {Absent(<<>>)} \cup {Present(l) : l \in MemoScoreLists}]

NoWeightedObject ==
    [investmentMemo |-> Absent({}), dueDiligenceTech |-> Absent(<<>>),
     dueDiligenceGTM |-> Absent(<<>>), investmentMemoScores |-> Absent(<<>>)]

WeightedContents ==
    {Content(k, NoWeightedObject) : k \in {"null", "text", "jsonNull"}}
    \cup {Content("object", o) : o \in WeightedObjects}

\* app/api/generate-idea/route.ts l.318-321: the catch block of POST
W_errorMessage(err) == "An error occurred while processing your request."

W_catch(err) ==
    /\ sent' = Append(sent, Response(500, W_errorMessage(err)))
    /\ escaped' = escaped
    /\ pc' = "done"

\* l.144-146
normalizeScore(score) == MathMin(MathMax(score, Zero), Num(100, 1))

\* l.154-157
calculateWeightedScore(scores, weights) ==
    LET totalWeight == SumSeq(weights)
        products    == [i \in 1..Len(scores) |-> JSMul(scores[i], weights[i])]
    IN  JSDiv(SumSeq(products), totalWeight)

\* l.275-280: only members whose typeof is 'number' are added
RECURSIVE SumNumbers(_)
SumNumbers(s) ==
    IF s = << >> THEN Zero
    ELSE LET rest == SumNumbers(SubSeq(s, 1, Len(s) - 1))
             last == s[Len(s)]
         IN  IF last.k \in {"num", "nan", "inf"} THEN JSAdd(rest, last) ELSE rest

\* the growth branch assigning the early row
stageWeightsGrowthAsEarly(stage) ==
    CASE stage = "early"  -> [tech |-> Num(40, 100), gtm |-> Num(30, 100), investmentMemo |-> Num(30, 100)]
      [] stage = "growth" -> [tech |-> Num(40, 100), gtm |-> Num(30, 100), investmentMemo |-> Num(30, 100)]
      [] stage = "late"   -> [tech |-> Num(20, 100), gtm |-> Num(30, 100), investmentMemo |-> Num(50, 100)]
      [] OTHER            -> [tech |-> Num(33, 100), gtm |-> Num(33, 100), investmentMemo |-> Num(34, 100)]

\* l.288-301
stageWeights(stage) ==
    CASE stage = "early"  -> [tech |-> Num(40, 100), gtm |-> Num(30, 100), investmentMemo |-> Num(30, 100)]
      [] stage = "growth" -> [tech |-> Num(30, 100), gtm |-> Num(40, 100), investmentMemo |-> Num(30, 100)]
      [] stage = "late"   -> [tech |-> Num(20, 100), gtm |-> Num(30, 100), investmentMemo |-> Num(50, 100)]
      [] OTHER            -> [tech |-> Num(33, 100), gtm |-> Num(33, 100), investmentMemo |-> Num(34, 100)]

\* the spread written the other way round: { ...customWeights, ...weights }
mergeWeightsDefaultsLast(weights, custom) ==
    [key \in WeightKeys |-> weights[key]]

\* l.304: { ...weights, ...customWeights }
mergeWeights(weights, custom) ==
    [key \in WeightKeys |-> IF key \in DOMAIN custom THEN Num(custom[key], 100)
                            ELSE weights[key]]

\* l.260-313: the response built from a parsed completion
W_response(obj, content, stage, custom) ==
    LET techScore == JSDiv(SumSeq(obj.dueDiligenceTech.v), Num(3, 1))
        gtmScore  == JSDiv(SumSeq(obj.dueDiligenceGTM.v), Num(3, 1))
        confidenceScore == JSDiv(SumNumbers(obj.investmentMemoScores.v), Num(6, 1))
        weights   == mergeWeights(stageWeights(stage), custom)
    IN  [parsed               |-> TRUE,
         investmentMemo       |-> obj.investmentMemo,
         dueDiligenceTech     |-> obj.dueDiligenceTech,
         dueDiligenceGTM      |-> obj.dueDiligenceGTM,
         investmentMemoScores |-> obj.investmentMemoScores,
         techScore            |-> techScore,
         gtmScore             |-> gtmScore,
         confidenceScore      |-> confidenceScore,
         globalScore          |-> calculateWeightedScore(
                                     <<techScore, gtmScore, confidenceScore>>,
                                     <<weights.tech, weights.gtm, weights.investmentMemo>>),
         weights              |-> weights,
         pitchDeckProcessed   |-> content # "empty"]

W_Receive ==
    /\ pipeline = "weighted"
    /\ pc = "idle"
    /\ req' \in WeightedRequests
    /\ pc' = "formData"
    /\ ResetLocals
    /\ UNCHANGED <<env, logFile>>

\* l.176-248: the prompt is built and the main completion request issued
W_prompt(content) ==
    IF req.query = "absent"
    THEN \* truncateContent(null, 200) reads .length of null
         /\ W_catch("TypeError")
         /\ events' = Append(events, "formData")
         /\ UNCHANGED prompt
    ELSE /\ prompt' = [built |-> TRUE, query |-> req.query, funding |-> content,
                       adjusted |-> FALSE]
         /\ events' = events \o <<"formData", "llm:main">>
         /\ pc' = "completion"
         /\ UNCHANGED <<sent, escaped>>

\* l.163-174: the form is read; with a pitch deck, its bytes are awaited next
W_formData ==
    /\ pipeline = "weighted"
    /\ pc = "formData"
    /\ UNCHANGED <<env, logFile, req, pitchDeckText, pitchDeckProcessed, pitchDeckInfo,
                   parsedResponse, pitchDeckContent>>
    /\ startupStage' = IF req.startupStage \in {"absent", ""} THEN "early"
                       ELSE req.startupStage
    /\ IF req.customWeights.kind = "text"
       THEN /\ W_catch("SyntaxError")
            /\ events' = Append(events, "formData")
            /\ UNCHANGED <<customWeights, prompt>>
       ELSE /\ customWeights' = req.customWeights.obj
            /\ IF req.file # NoFile
               THEN /\ pc' = "arrayBuffer"
                    /\ events' = Append(events, "formData")
                    /\ UNCHANGED <<prompt, sent, escaped>>
               ELSE W_prompt("empty")

\* l.171-173 with l.16-22: the deck is decoded and the summarization request issued
W_arrayBuffer ==
    /\ pipeline = "weighted"
    /\ pc = "arrayBuffer"
    /\ events' = events \o <<"arrayBuffer", "llm:summary">>
    /\ pc' = "summarizePitchDeck"
    /\ UNCHANGED <<env, logFile, req, locals, sent, escaped>>

\* l.19-24 and l.173-248: the summarization request returns (or fails)
W_summarizePitchDeck ==
    /\ pipeline = "weighted"
    /\ pc = "summarizePitchDeck"
    /\ UNCHANGED <<env, logFile, req, pitchDeckText, pitchDeckProcessed, pitchDeckInfo,
                   parsedResponse, startupStage, customWeights>>
    /\ \/ /\ W_catch("APIError")
          /\ events' = Append(events, "summaryFailed")
          /\ UNCHANGED <<pitchDeckContent, prompt>>
       \/ /\ apiKey
          /\ \E content \in {"empty", "summary"} :
                /\ pitchDeckContent' = content
                /\ IF req.query = "absent"
                   THEN /\ W_catch("TypeError")
                        /\ events' = Append(events, "summaryReturned")
                        /\ UNCHANGED prompt
                   ELSE /\ prompt' = [built |-> TRUE, query |-> req.query,
                                      funding |-> content, adjusted |-> FALSE]
                        /\ events' = events \o <<"summaryReturned", "llm:main">>
                        /\ pc' = "completion"
                        /\ UNCHANGED <<sent, escaped>>

\* l.245-317: the main completion request returns (or fails); the response
\* is computed and sent
W_completion ==
    /\ pipeline = "weighted"
    /\ pc = "completion"
    /\ UNCHANGED <<env, logFile, req, pitchDeckText, pitchDeckProcessed, pitchDeckInfo,
                   prompt, startupStage, customWeights, pitchDeckContent>>
    /\ \/ /\ events' = Append(events, "llmFailed")
          /\ W_catch("APIError")
          /\ UNCHANGED parsedResponse
       \/ /\ apiKey
          /\ \E c \in WeightedContents :
                CASE c.kind = "null" ->
                       /\ events' = Append(events, "llmReturned")
                       /\ W_catch("Error")
                       /\ UNCHANGED parsedResponse
                  [] c.kind = "text" ->
                       /\ events' = events \o <<"llmReturned", "jsonParseFailed">>
                       /\ W_catch("SyntaxError")
                       /\ UNCHANGED parsedResponse
                  [] c.kind = "jsonNull" ->
                       /\ events' = events \o <<"llmReturned", "jsonParsed">>
                       /\ W_catch("TypeError")
                       /\ UNCHANGED parsedResponse
                  [] c.kind = "object" ->
                       /\ events' = events \o <<"llmReturned", "jsonParsed">>
                       /\ IF \/ ~c.obj.dueDiligenceTech.present
                             \/ ~c.obj.dueDiligenceGTM.present
                             \/ ~c.obj.investmentMemoScores.present
                          THEN /\ W_catch("Error")
                               /\ UNCHANGED parsedResponse
                          ELSE /\ parsedResponse' = W_response(c.obj, pitchDeckContent,
                                                               startupStage, customWeights)
                               /\ sent' = Append(sent, Response(200, ""))
                               /\ pc' = "done"
                               /\ UNCHANGED escaped

\* ---------------------------------------------------------- legacy pipeline
LegacyRequests ==
    [method : {"POST", "GET"}, query : QueryKinds, targetMarket : MarketKinds,
     file : {NoFile} \cup FileNames, rating : {0}, startupStage : {"absent"},
     customWeights : {NoWeights}]

\* part_003 l.77-80: the catch block answers with the exception's own message
L_errorMessage(err) ==
    CASE err = "InvalidInput"    -> "Invalid query or target market"
      [] err = "InvalidFileType" -> "Invalid file type. Please upload a PDF or PowerPoint file."
      [] err = "NotAString"      -> "Invalid response from OpenAI"
      [] err = "FormError"       -> "<message of the formidable error>"
      [] err = "ExtractionError" -> "<message of the fs / pdf-parse / officegen error>"
      [] err = "APIError"        -> "<message of the OpenAI client error>"
      [] err = "SyntaxError"     -> "<message of the JSON.parse error>"
      [] OTHER                   -> "<message of the TypeError>"

L_catch(err) ==
    /\ sent' = Append(sent, Response(500, L_errorMessage(err)))
    /\ escaped' = escaped
    /\ pc' = "done"

L_Receive ==
    /\ pipeline = "legacy"
    /\ pc = "idle"
    /\ req' \in LegacyRequests
    /\ pc' = "formData"
    /\ ResetLocals
    /\ UNCHANGED <<env, logFile>>

\* part_003 l.15-56 and l.81-84: method check, form parsing, input checks
L_formData ==
    /\ pipeline = "legacy"
    /\ pc = "formData"
    /\ UNCHANGED <<env, logFile, req, pitchDeckText, pitchDeckProcessed, pitchDeckInfo,
                   parsedResponse, startupStage, customWeights, pitchDeckContent>>
    /\ IF req.method # "POST"
       THEN /\ sent' = Append(sent, Response(405, "Method Not Allowed"))
            /\ pc' = "done"
            /\ UNCHANGED <<events, prompt, escaped>>
       ELSE \/ /\ events' = Append(events, "formFailed")      \* form.parse reported err
               /\ L_catch("FormError")
               /\ UNCHANGED prompt
            \/ /\ events' = Append(events, "formData")
               /\ IF req.query = "absent" \/ req.targetMarket = "absent"
                  THEN /\ L_catch("InvalidInput")
                       /\ UNCHANGED prompt
                  ELSE IF req.file = NoFile
                  THEN /\ pc' = "analyzeText"
                       /\ prompt' = [built |-> TRUE, query |-> req.query,
                                     funding |-> "empty", adjusted |-> FALSE]
                       /\ UNCHANGED <<sent, escaped>>
                  ELSE IF FileExtension(req.file) \in {"pdf", "pptx"}
                  THEN /\ pc' = "readFile"
                       /\ UNCHANGED <<prompt, sent, escaped>>
                  ELSE /\ L_catch("InvalidFileType")
                       /\ UNCHANGED prompt

\* part_003 l.43-52 with l.87-110: the upload is read and its text extracted
L_extract ==
    /\ pipeline = "legacy"
    /\ pc = "readFile"
    /\ UNCHANGED <<env, logFile, req, pitchDeckInfo, parsedResponse, startupStage,
                   customWeights, pitchDeckContent>>
    /\ \/ /\ events' = Append(events, "extractFailed")   \* readFile, pdfParse or load threw
          /\ L_catch("ExtractionError")
          /\ UNCHANGED <<pitchDeckText, pitchDeckProcessed, prompt>>
       \/ \E text \in DeckTexts :
             /\ events' = IF FileExtension(req.file) # "pdf"
                          THEN Append(events, "pptxLoad")
                          ELSE IF text.len < MinPdfTextLength
                          THEN events \o <<"pdfParse", "primaryUnusable">>
                          ELSE Append(events, "pdfParse")
             /\ pitchDeckText' = text
             /\ pitchDeckProcessed' = TRUE
             /\ prompt' = [built |-> TRUE, query |-> req.query,
                           funding |-> IF text.len > 0 THEN "text" ELSE "empty",
                           adjusted |-> FALSE]
             /\ pc' = "analyzeText"
             /\ UNCHANGED <<sent, escaped>>

\* part_003 l.58 with part_002 l.80: the completion request is issued
L_analyzeText ==
    /\ pipeline = "legacy"
    /\ pc = "analyzeText"
    /\ events' = Append(events, "llm:main")
    /\ pc' = "completion"
    /\ UNCHANGED <<env, logFile, req, locals, sent, escaped>>

\* part_003 l.60-74: fields found in the deck replace the model's
L_response(obj, processed, found) ==
    [parsed             |-> TRUE,
     investmentMemo     |-> IF processed
                            THEN Present(obj.investmentMemo.v \cup found)
                            ELSE obj.investmentMemo,
     dueDiligenceTech   |-> obj.dueDiligenceTech,
     dueDiligenceGTM    |-> obj.dueDiligenceGTM,
     globalScore        |-> obj.globalScore,
     pitchDeckProcessed |-> processed]

\* part_002 l.80-91 and part_003 l.58-80: the completion returns (or fails)
L_completion ==
    /\ pipeline = "legacy"
    /\ pc = "completion"
    /\ UNCHANGED <<env, logFile, req, pitchDeckText, pitchDeckProcessed, pitchDeckInfo,
                   prompt, startupStage, customWeights, pitchDeckContent>>
    /\ \/ /\ events' = Append(events, "llmFailed")
          /\ L_catch("APIError")
          /\ UNCHANGED parsedResponse
       \/ /\ apiKey
          /\ \E c \in BadContents \cup {Content("object", o) : o \in HeuristicObjects} :
                CASE c.kind = "null" ->
                       /\ events' = Append(events, "llmReturned")
                       /\ L_catch("NotAString")
                       /\ UNCHANGED parsedResponse
                  [] c.kind = "text" ->
                       /\ events' = events \o <<"llmReturned", "jsonParseFailed">>
                       /\ L_catch("SyntaxError")
                       /\ UNCHANGED parsedResponse
                  [] c.kind = "jsonNull" ->
                       /\ events' = events \o <<"llmReturned", "jsonParsed">>
                       /\ L_catch("TypeError")
                       /\ UNCHANGED parsedResponse
                  [] c.kind = "object" ->
                       /\ events' = events \o <<"llmReturned", "jsonParsed">>
                       /\ IF pitchDeckProcessed /\ ~c.obj.investmentMemo.present
                          THEN /\ L_catch("TypeError")
                               /\ UNCHANGED parsedResponse
                          ELSE /\ \E found \in {{}, IF pitchDeckText.match
                                                    THEN {"fundingRequirements"} ELSE {},
                                                MemoFields \ {"fundingRequirements"}} :
                                     parsedResponse' = L_response(c.obj, pitchDeckProcessed,
                                        IF pitchDeckText.match
                                        THEN found \cup {"fundingRequirements"} ELSE found)
                               /\ sent' = Append(sent, Response(200, ""))
                               /\ pc' = "done"
                               /\ UNCHANGED escaped

Next ==
    \/ H_Receive
    \/ H_formData
    \/ H_extractTextFromPDF
    \/ H_performOCR
    \/ H_extractTextFromPPTX
    \/ H_processPitchDeck
    \/ H_getRecentFeedback
    \/ H_completion
    \/ H_logFeedbackAndAnalysis
    \/ PUT
    \/ W_Receive
    \/ W_formData
    \/ W_arrayBuffer
    \/ W_summarizePitchDeck
    \/ W_completion
    \/ L_Receive
    \/ L_formData
    \/ L_extract
    \/ L_analyzeText
    \/ L_completion
    \/ Finish

Spec == Init /\ [][Next]_vars


\* ------------------------------------------------- the scoring helpers alone
\* The score calculators and the sentiment scorer are pure: each is applied
\* here to every input within the bounds, outside any request.
server == <<pipeline, apiKey, logFile, pc, req, events, sent, escaped, locals>>

\* --- prompt texts
\* A string embedded in a prompt is the first len characters of the text it
\* was taken from, followed or not by the "... (truncated)" marker.
Chars(n) == [len |-> n, truncated |-> FALSE]

\* src/app/api/generate-idea/route.ts l.126
MAX_SUMMARY_LENGTH == 100

\* l.179: truncateContent(query, 200)
MaxIdeaLength == 200

\* src/app/api/generate-idea/route.ts l.128-131
truncateContent(content, maxLength) ==
    IF content.len <= maxLength THEN content
    ELSE [len |-> maxLength, truncated |-> TRUE]

\* the idea as each handler renders it into its prompt:
\* src/api/generate-idea/route.ts l.239 (Idea: ${query}) and
\* src/app/api/generate-idea/route.ts l.179
promptIdea(builder, query) ==
    IF builder = "weighted" THEN truncateContent(query, MaxIdeaLength) ELSE query

\* src/app/api/generate-idea/route.ts l.141 and l.180: the summary rendered
\* into the weighted prompt; the heuristic prompt has no summary
promptSummary(builder, content) ==
    IF builder = "weighted" THEN truncateContent(content, MAX_SUMMARY_LENGTH * 7)
    ELSE Chars(0)

\* lengths around a cap
Around(cap) == {0} \cup ((cap - 1)..(cap + MaxExcess))

\* --- presentations
\* a slide carries text, an embedded image, or both
Presentations == UNION {[1..n -> {"text", "image", "both"}] : n \in 0..MaxSlides}

\* the arguments of the helpers: the lengths of the technology and
\* go-to-market lists, a text, an idea and a summary, a presentation, or the
\* number of matches of a field pattern in a text
Applications ==
    {[fn |-> f, details |-> <<n, m>>, done |-> FALSE] :
        f \in {"calculateScore", "fallbackCalculateScore"},
        n \in 0..MaxLines, m \in 0..MaxLines}
    \cup {[fn |-> "performSentimentAnalysis", text |-> t, done |-> FALSE] : t \in ScoredTexts}
    \cup {[fn |-> "prompt", builder |-> b, query |-> Chars(n), summary |-> Chars(m),
            done |-> FALSE] :
            b \in {"heuristic", "weighted"}, n \in Around(MaxIdeaLength),
            m \in Around(MAX_SUMMARY_LENGTH * 7)}
    \cup {[fn |-> "extractTextFromPPTX", slides |-> p, done |-> FALSE,
            text |-> << >>, resolved |-> << >>, pending |-> {}] : p \in Presentations}
    \cup {[fn |-> "extractInfo", matches |-> m, done |-> FALSE, results |-> << >>,
            calls |-> 0, outcome |-> "running"] : m \in 0..MaxMatches}

HelpersInit ==
    /\ pipeline = "heuristic"
    /\ apiKey = TRUE
    /\ ServerIdle
    /\ applied \in Applications
    /\ page = NoPage
    /\ logCalls = NoLogCalls

\* route.ts l.376-378: the two section scores and their mean
ApplyCalculateScore ==
    /\ applied.fn = "calculateScore" /\ ~applied.done
    /\ LET techScore == calculateScore(applied.details[1])
           gtmScore  == calculateScore(applied.details[2])
       IN  applied' = [applied EXCEPT !.done = TRUE] @@
                      [techScore |-> techScore, gtmScore |-> gtmScore,
                       confidenceScore |-> meanScore(techScore, gtmScore)]
    /\ UNCHANGED <<server, page, logCalls>>

\* route.ts l.177-180: the same without a processed deck
ApplyFallbackCalculateScore ==
    /\ applied.fn = "fallbackCalculateScore" /\ ~applied.done
    /\ LET techScore == fallbackCalculateScore(applied.details[1])
           gtmScore  == fallbackCalculateScore(applied.details[2])
       IN  applied' = [applied EXCEPT !.done = TRUE] @@
                      [techScore |-> techScore, gtmScore |-> gtmScore,
                       confidenceScore |-> meanScore(techScore, gtmScore)]
    /\ UNCHANGED <<server, page, logCalls>>

\* route.ts l.367
ApplyPerformSentimentAnalysis ==
    /\ applied.fn = "performSentimentAnalysis" /\ ~applied.done
    /\ applied' = [applied EXCEPT !.done = TRUE] @@ performSentimentAnalysis(applied.text)
    /\ UNCHANGED <<server, page, logCalls>>

\* generatePrompt (src/api l.234-253) and the prompt of the weighted POST
\* (src/app/api l.176-181): the idea and the summary as rendered
ApplyPromptBuilder ==
    /\ applied.fn = "prompt" /\ ~applied.done
    /\ applied' = [applied EXCEPT !.done = TRUE] @@
                  [idea    |-> promptIdea(applied.builder, applied.query),
                   deck    |-> promptSummary(applied.builder, applied.summary)]
    /\ UNCHANGED <<server, page, logCalls>>

\* the pieces of text a slide contributes synchronously (l.504-518)
RECURSIVE slideText(_, _)
slideText(slides, i) ==
    IF i > Len(slides) THEN << >>
    ELSE <<[slide |-> i, piece |-> "header"]>>
         \o (IF slides[i] \in {"text", "both"} THEN <<[slide |-> i, piece |-> "text"]>>
             ELSE << >>)
         \o slideText(slides, i + 1)

\* route.ts l.495-535: the load callback walks the slides, starts one
\* performOCR per embedded image without awaiting it, and resolves with text
ApplyExtractTextFromPPTX ==
    /\ applied.fn = "extractTextFromPPTX" /\ ~applied.done
    /\ LET text == slideText(applied.slides, 1)
       IN  applied' = [applied EXCEPT
                !.done = TRUE, !.text = text, !.resolved = text,
                !.pending = {i \in DOMAIN applied.slides :
                                applied.slides[i] \in {"image", "both"}}]
    /\ UNCHANGED <<server, page, logCalls>>

\* route.ts l.523-527: a performOCR promise settles and its callback appends
\* to the local text; the promise of the extractor is already resolved
OcrSettles ==
    /\ applied.fn = "extractTextFromPPTX" /\ applied.done
    /\ \E i \in applied.pending :
         applied' = [applied EXCEPT
             !.pending = @ \ {i},
             !.text = Append(@, [slide |-> i, piece |-> "image"])]
    /\ UNCHANGED <<server, page, logCalls>>

\* route.ts l.342-346: the flags of the five field patterns are "i"
FieldPatternFlags == {"i"}

\* RegExp.prototype.exec on a text with the given number of matches: the
\* number of the match returned, 0 for null. Only a pattern with the g (or
\* y) flag resumes after the previous match; any other starts from the
\* beginning of the text every time.
regexExec(flags, matches, previous) ==
    IF "g" \in flags
    THEN (IF previous < matches THEN previous + 1 ELSE 0)
    ELSE (IF matches > 0 THEN 1 ELSE 0)

\* route.ts l.319-326: one turn of the loop of extractInfo. A loop that
\* does not end grows results until the engine runs out of memory or push
\* raises a RangeError.
extractInfoExec ==
    /\ applied.fn = "extractInfo" /\ ~applied.done
    /\ LET previous == IF applied.results = << >> THEN 0
                       ELSE applied.results[Len(applied.results)]
           match    == regexExec(FieldPatternFlags, applied.matches, previous)
       IN  IF match = 0
           THEN applied' = [applied EXCEPT !.calls = @ + 1, !.done = TRUE,
                                           !.outcome = "returned"]
           ELSE IF applied.calls < MaxExecCalls
           THEN applied' = [applied EXCEPT !.calls = @ + 1, !.results = Append(@, match)]
           ELSE \E end \in {"RangeError", "out of memory"} :
                   applied' = [applied EXCEPT !.done = TRUE, !.outcome = end]
    /\ UNCHANGED <<server, page, logCalls>>

HelpersNext ==
    \/ ApplyCalculateScore
    \/ ApplyFallbackCalculateScore
    \/ ApplyPerformSentimentAnalysis
    \/ ApplyPromptBuilder
    \/ ApplyExtractTextFromPPTX
    \/ OcrSettles
    \/ extractInfoExec

HelpersSpec == HelpersInit /\ [][HelpersNext]_vars


\* ------------------------------------------------------- the client page
\* src/app/page.tsx l.94-217. The page holds React state and one call chain
\* of generateAndValidateIdea per submission; the server's answers are drawn
\* from the responses a handler can send. The submit button is disabled
\* while isLoading, so a submission starts only when isLoading is false.
ScoreKeys == {"globalScore", "confidenceScore", "techScore", "gtmScore"}

\* response bodies: all four scores 0, or one of them 0.5 or missing
ResponseBodies ==
    {[key \in ScoreKeys |-> Zero]}
    \cup {[key \in ScoreKeys |-> IF key = k THEN v ELSE Zero] :
            k \in ScoreKeys, v \in {Num(1, 2), Undefined}}

NoBody == [key \in ScoreKeys |-> Undefined]

\* l.181-185
allScoresZero(data) == \A key \in ScoreKeys : data[key] = Zero

\* one retry more than the code allows
shouldRetryTwice(data, retryCount) == allScoresZero(data) /\ retryCount < 2

\* l.187
shouldRetry(data, retryCount) == allScoresZero(data) /\ retryCount < 1

\* l.193-198: data.score ?? 0
processedData(data) ==
    [key \in ScoreKeys |-> IF data[key] = Undefined THEN Zero ELSE data[key]]

ErrorMessage == "An error occurred while processing your request."

ClientInit ==
    /\ pipeline = "heuristic"
    /\ apiKey = TRUE
    /\ ServerIdle
    /\ applied = NoApplication
    /\ logCalls = NoLogCalls
    /\ page = [pc |-> "mounted", isLoading |-> FALSE, error |-> "null", progress |-> 0,
               validatedIdea |-> "null", calls |-> << >>]

\* l.203-211: catch and finally of the call chain i
Caught(i) ==
    page' = [page EXCEPT !.error = ErrorMessage, !.isLoading = FALSE,
                         !.calls[i].pc = "done", !.calls[i].outcome = "error"]

\* l.214-217 with l.155-170: the form is submitted and the first POST issued
handleSubmit ==
    /\ page.pc = "mounted"
    /\ ~page.isLoading
    /\ Len(page.calls) < MaxSubmissions
    /\ page' = [page EXCEPT !.isLoading = TRUE, !.error = "null", !.progress = 25,
                            !.calls = Append(@, [pc |-> "fetch", retryCount |-> 0,
                                                 posts |-> 1, responses |-> << >>,
                                                 outcome |-> "pending",
                                                 accepted |-> NoBody])]
    /\ UNCHANGED <<server, applied, logCalls>>

\* l.167-175: fetch settles
fetchSettles ==
    /\ page.pc = "mounted"
    /\ \E i \in DOMAIN page.calls :
         /\ page.calls[i].pc = "fetch"
         /\ \/ Caught(i)                                       \* fetch rejected
            \/ \E ok \in BOOLEAN :
                 LET seen == [page EXCEPT !.progress = 50,
                                !.calls[i].responses =
                                    Append(@, [ok |-> ok, read |-> FALSE, data |-> NoBody])]
                 IN  IF ok
                     THEN page' = [seen EXCEPT !.calls[i].pc = "json"]
                     ELSE page' = [seen EXCEPT !.error = ErrorMessage, !.isLoading = FALSE,
                                               !.calls[i].pc = "done",
                                               !.calls[i].outcome = "error"]
    /\ UNCHANGED <<server, applied, logCalls>>

\* l.177-202: response.json() settles. On a retry the inner call sets
\* isLoading and issues its POST before the outer call's finally block runs
\* (the inner promise is returned, not awaited), so isLoading ends false.
jsonSettles ==
    /\ page.pc = "mounted"
    /\ \E i \in DOMAIN page.calls :
         /\ page.calls[i].pc = "json"
         /\ \/ Caught(i)                                       \* the body is not JSON
            \/ \E data \in ResponseBodies :
                 LET call == page.calls[i]
                     n    == Len(call.responses)
                     seen == [page EXCEPT !.calls[i].responses[n].read = TRUE,
                                          !.calls[i].responses[n].data = data]
                 IN  IF shouldRetry(data, call.retryCount)
                     THEN page' = [seen EXCEPT !.isLoading = FALSE, !.error = "null",
                                               !.progress = 25,
                                               !.calls[i].retryCount = @ + 1,
                                               !.calls[i].posts = @ + 1,
                                               !.calls[i].pc = "fetch"]
                     ELSE page' = [seen EXCEPT !.validatedIdea = processedData(data),
                                               !.progress = 100, !.isLoading = FALSE,
                                               !.calls[i].pc = "done",
                                               !.calls[i].outcome = "accepted",
                                               !.calls[i].accepted = processedData(data)]
    /\ UNCHANGED <<server, applied, logCalls>>

ClientNext ==
    \/ handleSubmit
    \/ fetchSettles
    \/ jsonSettles

ClientSpec == ClientInit /\ [][ClientNext]_vars


\* ------------------------------------------------- the idea-finder page
\* src/unnamed/part_001. The page filters the built-in ideas as the user
\* types; a search is started through a debounced wrapper of handleSearch.
\* the texts that can be typed into the search box
Queries == UNION {[1..n -> {"A", "i"}] : n \in 0..MaxQueryLength}

\* String.prototype.toLowerCase, character by character
Lower(text) ==
    [i \in DOMAIN text |-> CASE text[i] = "A" -> "a"
                              [] text[i] = "I" -> "i"
                              [] text[i] = "T" -> "t"
                              [] OTHER         -> text[i]]

\* String.prototype.includes
Includes(text, part) ==
    \E i \in 1..(Len(text) + 1) :
        /\ i + Len(part) - 1 <= Len(text)
        /\ SubSeq(text, i, i + Len(part) - 1) = part

\* part_000: the searchable text of the built-in ideas ("AI", "IoT" ...)
startupIdeas == <<<<"A", "I">>, <<"I", "o", "T">>>>

\* part_001 l.33-37: the ideas whose text includes the query, case ignored
searchResults(query) ==
    {id \in DOMAIN startupIdeas : Includes(Lower(startupIdeas[id]), Lower(query))}

\* l.20-26 with l.73: debounce(handleSearch, 300) is built anew for every
\* handleSearch, that is for every query; its timeoutId starts undefined (0)
NewDebounced == [timeoutId |-> 0]

FinderInit ==
    /\ pipeline = "legacy"
    /\ apiKey = TRUE
    /\ ServerIdle
    /\ applied = NoApplication
    /\ logCalls = NoLogCalls
    /\ page = [pc |-> "finder", query |-> << >>, results |-> {}, aiIdea |-> "null",
               isLoading |-> FALSE, error |-> "null", debounced |-> NewDebounced,
               timers |-> << >>, edits |-> 0, fetching |-> FALSE, stale |-> FALSE]

\* clearTimeout(timeoutId)
clearTimeout(timers, timeoutId) ==
    SelectSeq(timers, LAMBDA t : t.id # timeoutId)

\* l.73-81: the query changed, so handleSearch and debouncedSearch are new;
\* the effect calls the new wrapper (clearTimeout of its own undefined
\* timeoutId, then setTimeout) or empties the results
queryEffect(p, q) ==
    IF q # << >>
    THEN [p EXCEPT !.query = q, !.edits = @ + 1,
                   !.debounced = [timeoutId |-> p.edits + 1],
                   !.timers = Append(clearTimeout(p.timers, NewDebounced.timeoutId),
                                     [id |-> p.edits + 1, query |-> q])]
    ELSE [p EXCEPT !.query = q, !.edits = @ + 1, !.results = {},
                   !.debounced = NewDebounced]

\* l.106: onChange sets the query
F_setQuery ==
    /\ page.pc = "finder"
    /\ page.edits < MaxEdits
    /\ \E q \in Queries \ {page.query} : page' = queryEffect(page, q)
    /\ UNCHANGED <<server, applied, logCalls>>

\* l.88-91: the Clear button, shown while the query is not empty
F_handleClearSearch ==
    /\ page.pc = "finder"
    /\ page.edits < MaxEdits
    /\ page.query # << >>
    /\ page' = queryEffect([page EXCEPT !.results = {}], << >>)
    /\ UNCHANGED <<server, applied, logCalls>>

\* l.24 with l.28-47: the oldest timer fires and runs the handleSearch it
\* was built from, which searches for the query of that render
F_timerFires ==
    /\ page.pc = "finder"
    /\ page.timers # << >>
    /\ LET timer == Head(page.timers)
       IN  page' = [page EXCEPT !.timers = Tail(@),
                                !.isLoading = FALSE, !.error = "null", !.aiIdea = "null",
                                !.results = searchResults(timer.query),
                                !.stale = @ \/ timer.query # page.query]
    /\ UNCHANGED <<server, applied, logCalls>>

\* l.83-86 with l.49-58: the form is submitted and the request issued
F_handleSubmit ==
    /\ page.pc = "finder"
    /\ ~page.fetching
    /\ page' = [page EXCEPT !.isLoading = TRUE, !.error = "null", !.fetching = TRUE]
    /\ UNCHANGED <<server, applied, logCalls>>

\* l.59-70: the request settles
F_generateAIIdea ==
    /\ page.pc = "finder"
    /\ page.fetching
    /\ \/ page' = [page EXCEPT !.fetching = FALSE, !.isLoading = FALSE,
                                !.aiIdea = "result"]
       \/ page' = [page EXCEPT !.fetching = FALSE, !.isLoading = FALSE,
                                !.error = "An error occurred while generating an AI idea. Please try again."]
    /\ UNCHANGED <<server, applied, logCalls>>

FinderNext ==
    \/ F_setQuery
    \/ F_handleClearSearch
    \/ F_timerFires
    \/ F_handleSubmit
    \/ F_generateAIIdea

FinderSpec == FinderInit /\ [][FinderNext]_vars


\* ------------------------------------------------- overlapping log calls
\* route.ts l.45-60 one awaited step at a time. Requests that are in flight
\* together (a POST logging its analysis, a PUT logging feedback) each run
\* logFeedbackAndAnalysis; nothing serialises the calls.
Callers == 1..MaxCallers

\* the records a POST (rating 0) or a PUT can log
LogRecords == {[rating |-> 0, source |-> "POST"]}
              \cup {[rating |-> r, source |-> "PUT"] : r \in Ratings}

NoCall == [pc |-> "idle", record |-> << >>, logs |-> << >>, outcome |-> "pending"]

\* before: the file when the first call started; overlapped: the pairs of
\* callers that had both read the file before either of them wrote it
LogInit ==
    /\ pipeline = "heuristic"
    /\ apiKey = TRUE
    /\ ServerIdle
    /\ applied = NoApplication
    /\ page = NoPage
    /\ logCalls = [before |-> << >>, overlapped |-> {}, calls |-> [c \in Callers |-> NoCall]]

rest == <<pipeline, apiKey, pc, req, events, sent, escaped, locals, applied, page>>

\* l.45-47: a request reaches the log routine and issues mkdir
L_call(c) ==
    /\ logCalls.calls[c].pc = "idle"
    /\ \E record \in LogRecords :
         logCalls' = [logCalls EXCEPT !.calls[c].pc = "mkdir", !.calls[c].record = record]
    /\ UNCHANGED <<logFile, rest>>

\* l.47: mkdir settles
L_mkdir(c) ==
    /\ logCalls.calls[c].pc = "mkdir"
    /\ \/ logCalls' = [logCalls EXCEPT !.calls[c].pc = "readFile"]
       \/ logCalls' = [logCalls EXCEPT !.calls[c].pc = "done", !.calls[c].outcome = "threw"]
    /\ UNCHANGED <<logFile, rest>>

\* l.50-56: readFile and JSON.parse settle
L_readFile(c) ==
    /\ logCalls.calls[c].pc = "readFile"
    /\ \E readable \in BOOLEAN :
         logCalls' = [logCalls EXCEPT !.calls[c].pc = "writeFile",
                                      !.calls[c].logs = readLogs(logFile, readable)]
    /\ UNCHANGED <<logFile, rest>>

\* l.58-59: writeFile settles
L_writeFile(c) ==
    /\ logCalls.calls[c].pc = "writeFile"
    /\ \/ /\ logFile' = writeLogs(logFile, logCalls.calls[c].logs, logCalls.calls[c].record)
          /\ logCalls' = [logCalls EXCEPT
                !.calls[c].pc = "done", !.calls[c].outcome = "written",
                !.overlapped = @ \cup {{c, b} : b \in {b \in Callers \ {c} :
                                                 logCalls.calls[b].pc = "writeFile"}}]
       \/ /\ logCalls' = [logCalls EXCEPT !.calls[c].pc = "done", !.calls[c].outcome = "threw"]
          /\ UNCHANGED logFile
    /\ UNCHANGED rest

LogNext ==
    \/ \E c \in Callers : L_call(c)
    \/ \E c \in Callers : L_mkdir(c)
    \/ \E c \in Callers : L_readFile(c)
    \/ \E c \in Callers : L_writeFile(c)

LogSpec == LogInit /\ [][LogNext]_vars


\* ------------------------------------------------------------------ claims
Has(e) == \E i \in DOMAIN events : events[i] = e

ServingPOST == req.method = "POST" /\ pc # "idle"
Answered    == req.method = "POST" /\ pc = "done"
Answered200 == Answered /\ Len(sent) = 1 /\ sent[1].status = 200

AcceptedExtensions == {"pdf", "pptx"}

\* C1: a POST whose pitchDeck file has an extension other than pdf / pptx
\* never issues an LLM request (summarization or main analysis) and ends
\* with a 500 response.
C1_UnsupportedFormatRejected ==
    (ServingPOST /\ req.file # NoFile /\ FileExtension(req.file) \notin AcceptedExtensions)
    => /\ ~Has("llm:summary")
       /\ ~Has("llm:main")
       /\ (pc = "done" => Len(sent) = 1 /\ sent[1].status = 500)

\* the message a client gets when the completion request itself fails
UpstreamFailureMessage ==
    CASE pipeline = "heuristic" -> H_errorMessage("APIError")
      [] pipeline = "weighted"  -> W_errorMessage("APIError")
      [] OTHER                  -> L_errorMessage("APIError")

\* C2: when the completion returns text that is not JSON, the POST is
\* answered 500 with a message that differs from the one sent when the
\* completion request fails, and no analysis is returned.
C2_MalformedResponseDistinct ==
    (Answered /\ Has("jsonParseFailed"))
    => /\ Len(sent) = 1
       /\ sent[1].status = 500
       /\ sent[1].error # UpstreamFailureMessage
       /\ ~parsedResponse.parsed

NotConfiguredMessage == "not configured"

\* C3: without an API key a POST does no form parsing, extraction, deck
\* parsing or outbound call, and is answered 500 "not configured".
C3_MissingKeyShortCircuits ==
    (ServingPOST /\ ~apiKey)
    => /\ events = << >>
       /\ (pc = "done" => sent = <<Response(500, NotConfiguredMessage)>>)

\* C4: in the heuristic pipeline a well-formed POST with a pdf / pptx deck
\* is never answered before the main completion request has been issued,
\* whatever fails during extraction or OCR.
C4_ExtractionFailuresAbsorbed ==
    (/\ pipeline = "heuristic"
     /\ Answered
     /\ req.query # "absent" /\ req.targetMarket # "absent"
     /\ req.file # NoFile /\ FileExtension(req.file) \in AcceptedExtensions)
    => Has("llm:main")

\* C5: a POST is answered exactly once, with 200 or with 500 and an error
\* string; nothing is sent before the handler ends, 200 is sent only after
\* the main completion returned and was parsed as JSON, an error response
\* carries no analysis of a completed request, and no exception leaves the
\* handler.
C5_ExactlyOneResponse ==
    (req.method = "POST" /\ pc # "idle")
    => /\ ~escaped
       /\ (pc # "done" => sent = << >>)
       /\ (pc = "done" =>
             /\ Len(sent) = 1
             /\ sent[1].status \in {200, 500}
             /\ (sent[1].status = 500 => sent[1].error # "")
             /\ (sent[1].status = 200 =>
                   /\ Has("llm:main") /\ Has("llmReturned") /\ Has("jsonParsed")
                   /\ ~Has("jsonParseFailed") /\ ~Has("llmFailed")
                   /\ parsedResponse.parsed))

\* C5 witness: a POST whose log write failed after a parsed completion was
\* answered with a single 500
C5_Witness ==
    /\ Answered /\ pipeline = "heuristic"
    /\ Has("jsonParsed") /\ Has("logFailed")
    /\ sent = <<Response(500, "Internal server error")>>

\* C6: every 200 response has an investmentMemo with all six sub-fields
\* and both due-diligence lists.
C6_ResponseContractTotal ==
    Answered200
    => /\ parsedResponse.investmentMemo.present
       /\ parsedResponse.investmentMemo.v = MemoFields
       /\ parsedResponse.dueDiligenceTech.present
       /\ parsedResponse.dueDiligenceGTM.present

\* the declared maximum of a score: 1 in the heuristic pipeline, 100 in the
\* weighted one
DeclaredMax == IF pipeline = "weighted" THEN Num(100, 1) ELSE Num(1, 1)

InDeclaredRange(v) == IsNum(v) => (Leq(Zero, v) /\ Leq(v, DeclaredMax))

\* C7: in every 200 response of the heuristic and the weighted pipeline,
\* each score that is a number lies within [0, declared max].
C7_ScoresWithinRange ==
    (Answered200 /\ pipeline \in {"heuristic", "weighted"})
    => /\ InDeclaredRange(parsedResponse.techScore)
       /\ InDeclaredRange(parsedResponse.gtmScore)
       /\ InDeclaredRange(parsedResponse.confidenceScore)
       /\ InDeclaredRange(parsedResponse.globalScore)

\* C8: the weighted pipeline never answers with a score that is NaN or
\* infinite.
C8_NoNaN ==
    (Answered200 /\ pipeline = "weighted")
    => /\ IsFinite(parsedResponse.techScore)
       /\ IsFinite(parsedResponse.gtmScore)
       /\ IsFinite(parsedResponse.confidenceScore)
       /\ IsFinite(parsedResponse.globalScore)

\* sum of score_i * weight_i over sum of weight_i, for three categories
WeightedMean(t, g, c, w) ==
    JSDiv(JSAdd(JSAdd(JSMul(t, w.tech), JSMul(g, w.gtm)), JSMul(c, w.investmentMemo)),
          JSAdd(JSAdd(w.tech, w.gtm), w.investmentMemo))

Clamp(v, lo, hi) == IF ~IsNum(v) THEN v ELSE IF Lt(v, lo) THEN lo ELSE IF Lt(hi, v) THEN hi ELSE v

\* C9: globalScore is the weighted mean of the three scores under the
\* returned weights, divided by the total weight, clamped to [0, 100].
C9_GlobalScoreFormula ==
    (Answered200 /\ pipeline = "weighted")
    => parsedResponse.globalScore =
         Clamp(WeightedMean(parsedResponse.techScore, parsedResponse.gtmScore,
                            parsedResponse.confidenceScore, parsedResponse.weights),
               Zero, Num(100, 1))

\* the stage table of the specification, in hundredths
StageTable ==
    [early  |-> [tech |-> 40, gtm |-> 30, investmentMemo |-> 30],
     growth |-> [tech |-> 30, gtm |-> 40, investmentMemo |-> 30],
     late   |-> [tech |-> 20, gtm |-> 30, investmentMemo |-> 50]]

DeclaredStage == IF req.startupStage \in {"absent", ""} THEN "early" ELSE req.startupStage

ExpectedWeight(key) ==
    IF key \in DOMAIN req.customWeights.obj
    THEN Num(req.customWeights.obj[key], 100)
    ELSE Num(StageTable[DeclaredStage][key], 100)

\* C10: for a declared stage and any partial customWeights, each returned
\* weight is the override when the request names that key and the stage
\* default otherwise, and globalScore is the weighted mean under exactly
\* those weights.
C10_OverridesReplaceNamedEntries ==
    (Answered200 /\ pipeline = "weighted" /\ DeclaredStage \in DOMAIN StageTable)
    => /\ \A key \in WeightKeys : parsedResponse.weights[key] = ExpectedWeight(key)
       /\ parsedResponse.globalScore =
            WeightedMean(parsedResponse.techScore, parsedResponse.gtmScore,
                         parsedResponse.confidenceScore,
                         [key \in WeightKeys |-> ExpectedWeight(key)])

\* C10 witness: stage early with customWeights {tech: 0.9} was answered
\* with weights 0.9 / 0.3 / 0.3 and a finite global score
C10_Witness ==
    /\ Answered200 /\ pipeline = "weighted"
    /\ DeclaredStage = "early"
    /\ DOMAIN req.customWeights.obj = {"tech"}
    /\ req.customWeights.obj["tech"] = 90
    /\ parsedResponse.weights = [tech |-> Num(90, 100), gtm |-> Num(30, 100),
                                 investmentMemo |-> Num(30, 100)]
    /\ IsNum(parsedResponse.globalScore)
    /\ Lt(Zero, parsedResponse.globalScore)


\* ---------------------------------------------------------------- C11
NoOverrides == DOMAIN req.customWeights.obj = {}

StageRow(stage) == [key \in WeightKeys |-> Num(StageTable[stage][key], 100)]

\* the weights of a stage outside the table, in hundredths
UnrecognisedStageRow == [tech |-> Num(33, 100), gtm |-> Num(33, 100), investmentMemo |-> Num(34, 100)]

\* C11 as stated: without customWeights the returned weights are exactly the
\* row of the declared stage (an omitted or empty stage counting as early),
\* and the stage is always one of early, growth, late when weights are resolved.
C11_StageAlwaysInTable ==
    (Answered200 /\ pipeline = "weighted" /\ NoOverrides)
    => /\ DeclaredStage \in DOMAIN StageTable
       /\ parsedResponse.weights = StageRow(DeclaredStage)

\* C11: without customWeights the returned weights are exactly the row of the
\* declared stage when it is early, growth or late, an omitted or empty stage
\* counting as early; any other stage string is accepted and resolves to
\* 0.33 / 0.33 / 0.34.
C11_StageRowResolved ==
    (Answered200 /\ pipeline = "weighted" /\ NoOverrides)
    => parsedResponse.weights =
         IF DeclaredStage \in DOMAIN StageTable THEN StageRow(DeclaredStage)
         ELSE UnrecognisedStageRow

\* C11 witness: a form with an empty startupStage and no customWeights was
\* answered with the early row; another stage was answered with its own row
C11_Witness ==
    /\ Answered200 /\ pipeline = "weighted" /\ NoOverrides
    /\ req.startupStage \in {"", "growth"}
    /\ req.startupStage = "" => parsedResponse.weights.tech = Num(40, 100)
    /\ req.startupStage = "growth" => parsedResponse.weights.gtm = Num(40, 100)


\* ---------------------------------------------------------------- C12
Scored(f) == applied.fn = f /\ applied.done

One == Num(1, 1)

InUnit(v) == IsNum(v) /\ Leq(Zero, v) /\ Leq(v, One)

\* C12: for every list length n >= 0 each score calculator (the pitch-deck
\* one and the fallback one) returns a value within [0, 1], and a longer
\* list never scores lower than a shorter one.
C12_CalculatorsBoundedMonotone ==
    (Scored("calculateScore") \/ Scored("fallbackCalculateScore"))
    => /\ InUnit(applied.techScore)
       /\ InUnit(applied.gtmScore)
       /\ applied.details[1] <= applied.details[2]
            => Leq(applied.techScore, applied.gtmScore)
       /\ applied.details[2] <= applied.details[1]
            => Leq(applied.gtmScore, applied.techScore)

\* C12 witness: the pitch-deck calculator scored an empty list 0 and a list
\* longer than five lines 1
C12_Witness ==
    /\ Scored("calculateScore")
    /\ applied.details[1] = 0 /\ applied.details[2] > 5
    /\ applied.techScore = Zero /\ applied.gtmScore = One

\* ---------------------------------------------------------------- C13
\* 0 for an empty list, 0.5 + min(0.1 n, 0.5) otherwise, in hundredths
DeclaredPitchScore(n) ==
    IF n = 0 THEN 0 ELSE 50 + (IF 10 * n < 50 THEN 10 * n ELSE 50)

\* C13: the pitch-deck score of a list of n lines is 0 for n = 0 and
\* 0.5 + min(0.1 n, 0.5) for n >= 1, so at least 0.5 for a non-empty list and
\* exactly 1.0 from 5 lines on; the confidence score is the mean of the two
\* section scores to two decimals.
C13_PitchScoreFormula ==
    Scored("calculateScore")
    => LET n == applied.details[1]
           m == applied.details[2]
       IN  /\ applied.techScore = Num(DeclaredPitchScore(n), 100)
           /\ applied.gtmScore = Num(DeclaredPitchScore(m), 100)
           /\ n >= 1 => Leq(Num(1, 2), applied.techScore)
           /\ n >= 5 => applied.techScore = One
           /\ JSMul(applied.confidenceScore, Num(2, 1))
                = JSAdd(applied.techScore, applied.gtmScore)

\* C13 witness: five technology lines and one go-to-market line scored
\* 1.0, 0.6 and confidence 0.8
C13_Witness ==
    /\ Scored("calculateScore")
    /\ applied.details = <<5, 1>>
    /\ applied.techScore = One
    /\ applied.gtmScore = Num(6, 10)
    /\ applied.confidenceScore = Num(8, 10)

\* ---------------------------------------------------------------- C14
\* C14: each of the three sentiment fractions is within [0, 1] for every
\* text, including texts whose vocabulary words are joined by punctuation.
C14_FractionsWithinUnit ==
    Scored("performSentimentAnalysis")
    => \A f \in {"positive", "negative", "neutral"} : InUnit(applied.sentimentScores[f])

\* ---------------------------------------------------------------- C15
\* C15: the label is positive exactly when the positive fraction is strictly
\* greater than both others, negative exactly when the negative fraction is
\* strictly greater than both others, and neutral otherwise, ties included.
C15_LabelByStrictMajority ==
    Scored("performSentimentAnalysis")
    => LET p == applied.sentimentScores.positive
           n == applied.sentimentScores.negative
           u == applied.sentimentScores.neutral
           positiveWins == Lt(n, p) /\ Lt(u, p)
           negativeWins == Lt(p, n) /\ Lt(u, n)
       IN  /\ applied.overallSentiment = "positive" <=> positiveWins
           /\ applied.overallSentiment = "negative" <=> negativeWins
           /\ applied.overallSentiment = "neutral" <=> (~positiveWins /\ ~negativeWins)

\* C15 witness: a text with as many positive as negative words and fewer
\* neutral ones was labelled neutral
C15_Witness ==
    /\ Scored("performSentimentAnalysis")
    /\ applied.sentimentScores.positive = applied.sentimentScores.negative
    /\ Lt(applied.sentimentScores.neutral, applied.sentimentScores.positive)
    /\ applied.overallSentiment = "neutral"


\* ---------------------------------------------------------------- C16
PdfUpload == ServingPOST /\ req.file # NoFile /\ FileExtension(req.file) = "pdf"

\* the index of the first occurrence of an event, 0 when it has not happened
First(e) == IF Has(e) THEN CHOOSE i \in DOMAIN events :
                               events[i] = e /\ \A j \in 1..(i - 1) : events[j] # e
            ELSE 0

\* C16: for a PDF upload, once the primary extraction has given fewer than
\* 100 characters or has thrown, recognition is invoked before anything else
\* is done with the text: a short primary text is never used directly.
C16_ShortPdfTextGoesToOCR ==
    (PdfUpload /\ Has("primaryUnusable") /\ pc # "performOCR")
    => /\ Has("performOCR")
       /\ First("performOCR") = First("primaryUnusable") + 1

\* ---------------------------------------------------------------- C17
\* C17: a text returned by the extractor of the heuristic handler is never
\* the empty string.
C17_ExtractedTextNonEmpty ==
    (pipeline = "heuristic" /\ ServingPOST /\ pitchDeckProcessed)
    => pitchDeckText.len > 0


\* ---------------------------------------------------------------- C18
\* the first response of a call chain was OK and carried four zero scores
FirstAllZero(call) ==
    /\ Len(call.responses) >= 1
    /\ call.responses[1].ok /\ call.responses[1].read
    /\ \A key \in ScoreKeys : call.responses[1].data[key] = Zero

\* C18: a submission issues at most two POSTs, the second exactly when the
\* first response was OK with globalScore, confidenceScore, techScore and
\* gtmScore all exactly 0; the second response's result is accepted whatever
\* its scores; and isLoading is false once every submission has finished.
C18_AtMostOneRetry ==
    page.pc = "mounted"
    => /\ \A i \in DOMAIN page.calls :
            LET call == page.calls[i]
            IN  /\ call.posts <= 2
                /\ call.posts = 2 <=> FirstAllZero(call)
                /\ (Len(call.responses) = 2 /\ call.responses[2].read)
                     => /\ call.pc = "done" /\ call.outcome = "accepted"
                        /\ \A key \in ScoreKeys :
                              call.accepted[key] =
                                IF call.responses[2].data[key] = Undefined THEN Zero
                                ELSE call.responses[2].data[key]
       /\ (\A i \in DOMAIN page.calls : page.calls[i].pc = "done") => ~page.isLoading

\* C18 witness: a submission retried once and accepted a second response
\* whose four scores were again 0
C18_Witness ==
    /\ page.pc = "mounted"
    /\ \E i \in DOMAIN page.calls :
         /\ page.calls[i].posts = 2 /\ page.calls[i].pc = "done"
         /\ page.calls[i].outcome = "accepted"
         /\ FirstAllZero(page.calls[i])
         /\ \A key \in ScoreKeys : page.calls[i].responses[2].data[key] = Zero
    /\ ~page.isLoading


\* ---------------------------------------------------------------- C19
\* a log call has just returned
LogCallReturned ==
    /\ events' # events
    /\ events' # << >>
    /\ events'[Len(events')] = "logWritten"

\* C19: under sequential use every call of the log routine leaves the file
\* with its previous content plus exactly one new record, also when the
\* existing content could not be read or parsed.
C19_LogAppendOnly ==
    [][LogCallReturned
       => /\ Len(logFile') = Len(logFile) + 1
          /\ SubSeq(logFile', 1, Len(logFile)) = logFile]_vars

\* ---------------------------------------------------------------- C20
Written == {c \in Callers : logCalls.calls[c].outcome = "written"}

AllCallsDone == \A c \in Callers : logCalls.calls[c].pc = "done"

\* two calls both read the file before either wrote it, and both wrote
LostUpdate == \E pair \in logCalls.overlapped : pair \subseteq Written

\* C20: when two calls of the log routine have both read the file before
\* either wrote it and both have written, the file ends with fewer new
\* records than there were successful writes: the record of one is lost.
C20_OverlappingCallsLoseRecord ==
    (logCalls # NoLogCalls /\ AllCallsDone /\ LostUpdate)
    => Len(logFile) < Len(logCalls.before) + Cardinality(Written)

\* C20 witness: two calls read the empty file, both wrote, and the file
\* holds only the record of the call that wrote last
C20_Witness ==
    /\ logCalls # NoLogCalls /\ AllCallsDone
    /\ {1, 2} \in logCalls.overlapped
    /\ {1, 2} \subseteq Written
    /\ logCalls.calls[1].record # logCalls.calls[2].record
    /\ logFile \in {<<logCalls.calls[1].record>>, <<logCalls.calls[2].record>>}


\* ---------------------------------------------------------------- C21
\* the completion request of the heuristic handler is in flight or has
\* returned, and the request has not yet written the log
PromptSent == pipeline = "heuristic" /\ pc \in {"completion", "logFeedbackAndAnalysis"}

\* the prompt built from the request and its deck alone
BasePrompt ==
    [built |-> TRUE, query |-> req.query, funding |-> pitchDeckInfo.fundingRequirements,
     adjusted |-> FALSE]

\* the last five records of the log exist and average below 3.5
LowRecentRatings ==
    LET n      == Len(logFile)
        recent == SubSeq(logFile, IF n > 5 THEN n - 4 ELSE 1, n)
    IN  /\ n > 0
        /\ 2 * SumRatings(recent) < 7 * Len(recent)

GenericMessages ==
    {"Invalid response from AI model", "Internal server error",
     "An error occurred while processing your request."}

\* C22: every error body sent to the client is one of a fixed set of generic
\* messages and never carries text taken from the exception.
C22_ErrorBodiesGeneric ==
    \A i \in DOMAIN sent :
        sent[i].status = 500 => sent[i].error \in GenericMessages

\* ---------------------------------------------------------------- C23
\* C23: in every 200 response pitchDeckProcessed is true exactly when the
\* request carried a pitch-deck file, also when the extracted text or the
\* summary of the deck is the empty string.
C23_ProcessedIffUploaded ==
    Answered200 => (parsedResponse.pitchDeckProcessed <=> req.file # NoFile)

\* ---------------------------------------------------------------- C24
\* C24: the funding-requirements text rendered into the prompt of the
\* heuristic handler is never the empty string: it is a value found in the
\* deck or the fixed placeholder, also without a deck and on the error path
\* of processPitchDeck.
C24_PromptFieldsNonEmpty ==
    (pipeline = "heuristic" /\ Has("llm:main")) => prompt.funding # "empty"


\* ---------------------------------------------------------------- C25
\* the first cap characters and the marker, or the text unchanged
Bounded(content, cap) ==
    IF content.len > cap THEN [len |-> cap, truncated |-> TRUE]
    ELSE [len |-> content.len, truncated |-> FALSE]

\* C25: a prompt builder renders an idea longer than the cap (200) as its
\* first cap characters followed by the truncation marker and an idea within
\* the cap unchanged; the same holds for the pitch-deck summary and its cap
\* (700), so no prompt embeds an unbounded user-supplied string.
C25_PromptInputsBounded ==
    Scored("prompt")
    => /\ applied.idea = Bounded(applied.query, 200)
       /\ applied.builder = "weighted" => applied.deck = Bounded(applied.summary, 700)

\* ---------------------------------------------------------------- C26
\* C26: the text extractTextFromPPTX resolves with holds, for every slide
\* with an embedded image, the recognised text of that image.
C26_ResolvedTextHoldsImageText ==
    (applied.fn = "extractTextFromPPTX" /\ applied.done)
    => \A i \in DOMAIN applied.slides :
          applied.slides[i] \in {"image", "both"}
          => \E j \in DOMAIN applied.resolved :
                applied.resolved[j] = [slide |-> i, piece |-> "image"]

\* ---------------------------------------------------------------- C27
\* C27: the matches collected for a field are all the matches of its pattern
\* in the text, each once and in text order.
C27_MatchesOnceInOrder ==
    applied.fn = "extractInfo"
    => /\ \A j \in DOMAIN applied.results : applied.results[j] = j
       /\ Len(applied.results) <= applied.matches
       /\ applied.done => Len(applied.results) = applied.matches

\* ---------------------------------------------------------------- C28
\* C28: the loop of extractInfo ends for every text: exec is called at most
\* once per match plus once for the final null, and the loop returns.
C28_ExtractInfoTerminates ==
    applied.fn = "extractInfo"
    => /\ applied.calls <= applied.matches + 1
       /\ applied.outcome \in {"running", "returned"}


\* ---------------------------------------------------------------- C29
\* processPitchDeck has returned for the request being served
DeckParsed == pipeline = "heuristic" /\ Has("processPitchDeck") /\ pc # "crashed"

ErrorPath == pitchDeckInfo.fundingRequirements = "empty"

SixTenths == Num(6, 10)

\* C29: on the non-error path of processPitchDeck the technology and
\* go-to-market lists are never empty, so the three scores are at least 0.6;
\* a deck without a section scores as one whose section has a single line;
\* and a score of 0 arises only on the error path or when no deck text was
\* processed.
C29_PlaceholderListsScore ==
    /\ (DeckParsed /\ ~ErrorPath)
       => /\ pitchDeckInfo.techDetails >= 1 /\ pitchDeckInfo.gtmDetails >= 1
          /\ Leq(SixTenths, pitchDeckInfo.techScore)
          /\ Leq(SixTenths, pitchDeckInfo.gtmScore)
          /\ Leq(SixTenths, pitchDeckInfo.confidenceScore)
          /\ pitchDeckText.tech <= 1 => pitchDeckInfo.techScore = SixTenths
          /\ pitchDeckText.gtm <= 1 => pitchDeckInfo.gtmScore = SixTenths
    /\ (pipeline = "heuristic" /\ ServingPOST
        /\ Zero \in {pitchDeckInfo.techScore, pitchDeckInfo.gtmScore,
                      pitchDeckInfo.confidenceScore})
       => (~Has("processPitchDeck") \/ pc = "crashed" \/ ErrorPath)

\* C29 witness: a deck text without a technology section and with one
\* go-to-market line was parsed, and both sections scored 0.6
C29_Witness ==
    /\ DeckParsed /\ ~ErrorPath
    /\ pitchDeckText.tech = 0 /\ pitchDeckText.gtm = 1
    /\ pitchDeckInfo.techScore = SixTenths
    /\ pitchDeckInfo.gtmScore = SixTenths
    /\ pitchDeckInfo.confidenceScore = SixTenths


\* ---------------------------------------------------------------- C30
\* C30: in the idea-finder page, once every pending timer has fired the
\* results are empty whenever the query is empty, and no timer scheduled for
\* an earlier query runs its search after the query has changed or been
\* cleared.
C30_ResultsFollowQuery ==
    page.pc = "finder"
    => /\ (page.timers = << >> /\ page.query = << >>) => page.results = {}
       /\ ~page.stale

====
